---- MODULE Spec2Model ----
(***************************************************************************)
(* Model of book.py, the Streamlit personal library manager.               *)
(*                                                                         *)
(* A session is a sequence of script runs.  Every run loads the library    *)
(* from library.json (line 112) and then executes the one menu section the *)
(* user interacted with; add_book and remove_book rewrite the whole file.  *)
(*                                                                         *)
(* Text is modelled as a sequence of one-character strings, so that        *)
(* lower(), split() and substring tests are computed, not assumed.         *)
(* Numbers entered for the year are fixed-point values in tenths, so that  *)
(* int(year) is a real truncation.  Floating point rounding of the         *)
(* percentage is not modelled: the percentage is an exact fraction.        *)
(***************************************************************************)
EXTENDS Integers, Sequences, FiniteSets, TLC

\* ------------------------------------------------------------------ bounds
\* Largest collection a session grows by adding.
MaxBooks == 3
\* Largest value of the wall clock, in seconds since the first run.
MaxClock == 1
\* Largest collection a session grows by adding when two sessions share the
\* file.
MaxShared == 2

Sessions == {1, 2}

\* -------------------------------------------------------------------- text
SEP == <<" ", "-", " ">>

LowerChar(c) == IF c = "D" THEN "d" ELSE IF c = "H" THEN "h" ELSE c

\* str.lower()
Lower(s) == [i \in 1..Len(s) |-> LowerChar(s[i])]

\* s[i : i + len(p)] == p
MatchAt(s, p, i) ==
    /\ i + Len(p) - 1 <= Len(s)
    /\ \A k \in 1..Len(p) : s[i + k - 1] = p[k]

\* s.split(sep)[0]
SplitFirst(s, sep) ==
    IF \E i \in 1..Len(s) : MatchAt(s, sep, i)
    THEN LET i == CHOOSE j \in 1..Len(s) :
                      /\ MatchAt(s, sep, j)
                      /\ \A k \in 1..(j - 1) : ~MatchAt(s, sep, k)
         IN  SubSeq(s, 1, i - 1)
    ELSE s

\* int(year) for a number given in tenths: truncation toward zero
PyInt(tenths) ==
    IF tenths >= 0 THEN tenths \div 10 ELSE -((-tenths) \div 10)

\* datetime.now().strftime(...): a text rendering of the clock
strftime(t) == <<ToString(t)>>

\* ------------------------------------------------------------- form inputs
Du == <<"D", "u">>
du == <<"d", "u">>
D == <<"D">>
DSepU == <<"D", " ", "-", " ", "u">>
Herbert == <<"h">>
Dickens == <<"D">>
SciFi == <<"S">>
Fantasy == <<"F">>
Empty == <<>>
SomeNotes == <<"n">>

Form(t, a, y, g, r, s, n) ==
    [title |-> t, author |-> a, year |-> y, genre |-> g,
     read |-> r, rating |-> s, notes |-> n]

\* Values a user can submit in the add form (lines 123-129).
Forms ==
    { Form(Du, Herbert, 19650, SciFi, TRUE, 5, SomeNotes),
      Form(du, Dickens, 19657, Fantasy, FALSE, 0, Empty),
      Form(D, Herbert, 19650, Fantasy, TRUE, 3, Empty),
      Form(DSepU, Herbert, 19650, SciFi, FALSE, 0, Empty),
      Form(Empty, Herbert, 19650, SciFi, FALSE, 0, Empty),
      Form(Du, Empty, 19650, SciFi, FALSE, 0, Empty),
      Form(Du, Herbert, 19650, Empty, TRUE, 5, Empty) }

\* Titles passed to remove_book.
Titles == {Du, du, D, DSepU, <<"u">>}

\* -------------------------------------------------------------------- JSON
Keys == <<"title", "author", "year", "genre", "read", "rating", "notes",
          "date_added">>
BoolKeys == {"read"}
IntKeys == {"year", "rating"}

dump_value(k, v) ==
    IF k \in BoolKeys THEN (IF v THEN <<"true">> ELSE <<"false">>)
    ELSE IF k \in IntKeys THEN <<"num", v>>
    ELSE <<"str", v>>

load_value(tok) ==
    IF tok[1] = "true" THEN TRUE
    ELSE IF tok[1] = "false" THEN FALSE
    ELSE tok[2]

\* json.dump of one book: the members in the dict's insertion order
dump_object(book) ==
    [k \in 1..Len(Keys) |-> <<Keys[k], dump_value(Keys[k], book[Keys[k]])>>]

load_object(obj) ==
    [key \in {obj[k][1] : k \in 1..Len(obj)} |->
        LET k == CHOOSE j \in 1..Len(obj) : obj[j][1] = key
        IN  load_value(obj[k][2])]

\* json.dump(library, file, indent=4): the array of the books' objects
json_dump(library) == [i \in 1..Len(library) |-> dump_object(library[i])]

\* json.load(file) of a well-formed array
json_load(text) == [i \in 1..Len(text) |-> load_object(text[i])]

\* -------------------------------------------------------------- operations
\* What library.json can be: missing, bytes that are not text in the
\* platform encoding, text that is not JSON, or a JSON array of books.
AbsentFile == [status |-> "absent", text |-> <<>>]
UndecodableFile == [status |-> "undecodable", text |-> <<>>]
MalformedFile == [status |-> "malformed", text |-> <<>>]

\* Lines 56-61.  open() raises FileNotFoundError for a missing file and
\* json.load raises JSONDecodeError for text that is not JSON; both are
\* caught.  Reading bytes that are not valid text raises UnicodeDecodeError,
\* which is neither, so it propagates.
load_library(f) ==
    IF f.status = "absent" THEN [raised |-> FALSE, value |-> <<>>]
    ELSE IF f.status = "undecodable" THEN [raised |-> TRUE, value |-> <<>>]
    ELSE IF f.status = "malformed" THEN [raised |-> FALSE, value |-> <<>>]
    ELSE [raised |-> FALSE, value |-> json_load(f.text)]

\* Lines 63-65: open(..., "w") truncates, json.dump writes the whole list.
save_library(library) == [status |-> "json", text |-> json_dump(library)]

\* add_book with the new book inserted at the head of the list
add_book_front(library, title, author, year, genre, read, rating, notes, t) ==
    LET book == [title |-> title, author |-> author, year |-> PyInt(year),
                 genre |-> genre, read |-> read, rating |-> rating,
                 notes |-> notes, date_added |-> strftime(t)]
        inserted == <<book>> \o library
    IN  [library |-> inserted, file |-> save_library(inserted),
         message |-> "added"]

\* add_book with the save issued before the append
add_book_early(library, title, author, year, genre, read, rating, notes, t) ==
    LET book == [title |-> title, author |-> author, year |-> PyInt(year),
                 genre |-> genre, read |-> read, rating |-> rating,
                 notes |-> notes, date_added |-> strftime(t)]
    IN  [library |-> Append(library, book), file |-> save_library(library),
         message |-> "added"]

\* Lines 68-81.  t is the clock reading of datetime.now().
add_book(library, title, author, year, genre, read, rating, notes, t) ==
    LET book == [title |-> title, author |-> author, year |-> PyInt(year),
                 genre |-> genre, read |-> read, rating |-> rating,
                 notes |-> notes, date_added |-> strftime(t)]
        appended == Append(library, book)
    IN  [library |-> appended, file |-> save_library(appended),
         message |-> "added"]

\* list.remove(x): delete the first element equal to x
list_remove(l, x) ==
    LET i == CHOOSE j \in 1..Len(l) :
                 /\ l[j] = x
                 /\ \A k \in 1..(j - 1) : l[k] # x
    IN  SubSeq(l, 1, i - 1) \o SubSeq(l, i + 1, Len(l))

TitleHit(book, title) == Lower(book.title) = Lower(title)

\* remove_book deleting every book with the title
remove_book_all(library, title) ==
    LET Keep(book) == ~TitleHit(book, title)
    IN  IF \A i \in 1..Len(library) : Keep(library[i])
        THEN [library |-> library, saved |-> FALSE, message |-> "not_found"]
        ELSE [library |-> SelectSeq(library, Keep), saved |-> TRUE,
              message |-> "removed"]

\* remove_book saving on both paths
remove_book_resave(library, title) ==
    LET hits == {i \in 1..Len(library) : TitleHit(library[i], title)}
    IN  IF hits = {}
        THEN [library |-> library, saved |-> TRUE, message |-> "not_found"]
        ELSE LET i == CHOOSE j \in hits : \A k \in hits : j <= k
             IN  [library |-> list_remove(library, library[i]),
                  saved |-> TRUE, message |-> "removed"]

\* remove_book without the save
remove_book_nosave(library, title) ==
    LET hits == {i \in 1..Len(library) : TitleHit(library[i], title)}
    IN  IF hits = {}
        THEN [library |-> library, saved |-> FALSE, message |-> "not_found"]
        ELSE LET i == CHOOSE j \in hits : \A k \in hits : j <= k
             IN  [library |-> list_remove(library, library[i]),
                  saved |-> FALSE, message |-> "removed"]

\* Lines 84-92: the loop stops at the first book whose lowered title equals
\* the lowered argument; only then the list is changed and saved.
remove_book(library, title) ==
    LET hits == {i \in 1..Len(library) :
                    Lower(library[i].title) = Lower(title)}
    IN  IF hits = {}
        THEN [library |-> library, saved |-> FALSE, message |-> "not_found"]
        ELSE LET i == CHOOSE j \in hits : \A k \in hits : j <= k
             IN  [library |-> list_remove(library, library[i]),
                  saved |-> TRUE, message |-> "removed"]

\* the check of line 133 reduced to the title
required_filled_title_only(title, author, genre) == title # <<>>

\* Line 133: "if title and author and genre" (truthiness of str)
required_filled(title, author, genre) ==
    /\ title # <<>>
    /\ author # <<>>
    /\ genre # <<>>

\* Line 143: the choices of the search select box
search_options(library) ==
    <<Empty>> \o [i \in 1..Len(library) |->
                     library[i].title \o SEP \o library[i].author]

\* the search comparing titles ignoring case
search_books_nocase(library, search_query) ==
    IF search_query = <<>> THEN <<>>
    ELSE LET selected_title == SplitFirst(search_query, SEP)
             Hit(book) == Lower(book.title) = Lower(selected_title)
         IN  SelectSeq(library, Hit)

\* Lines 145-147
search_books(library, search_query) ==
    IF search_query = <<>> THEN <<>>
    ELSE LET selected_title == SplitFirst(search_query, SEP)
             Hit(book) == book.title = selected_title
         IN  SelectSeq(library, Hit)

\* the sum of line 185 without its condition
read_books_all(library) == Len(library)

\* Line 185: sum(1 for book in library if book["read"])
RECURSIVE read_books(_)
read_books(library) ==
    IF library = <<>> THEN 0
    ELSE (IF Head(library).read THEN 1 ELSE 0) + read_books(Tail(library))

DictKeys(d) == {d[i][1] : i \in 1..Len(d)}

\* Line 196: {book["genre"]: 0 for book in library}; a dict keeps the
\* position of a key's first insertion
RECURSIVE genres_init(_)
genres_init(library) ==
    IF library = <<>> THEN <<>>
    ELSE LET d == genres_init(SubSeq(library, 1, Len(library) - 1))
             g == library[Len(library)].genre
         IN  IF g \in DictKeys(d)
             THEN [i \in 1..Len(d) |-> IF d[i][1] = g THEN <<g, 0>> ELSE d[i]]
             ELSE Append(d, <<g, 0>>)

\* Lines 197-198: genres[book["genre"]] += 1 for every book
RECURSIVE genres_count(_, _)
genres_count(d, library) ==
    IF library = <<>> THEN d
    ELSE LET g == Head(library).genre
             inc == [i \in 1..Len(d) |->
                        IF d[i][1] = g THEN <<g, d[i][2] + 1>> ELSE d[i]]
         IN  genres_count(inc, Tail(library))

\* Lines 184-202.  percentage_read is the exact fraction num/den; progress
\* is int(percentage_read); genres is the list printed by the final loop,
\* which walks genres.items() in the dict's order.
library_stats(library) ==
    LET total_books == Len(library)
        rb == read_books(library)
        unread_books == total_books - rb
        percentage_read ==
            IF total_books > 0 THEN [num |-> rb * 100, den |-> total_books]
            ELSE [num |-> 0, den |-> 1]
    IN  [total |-> total_books, read |-> rb, unread |-> unread_books,
         percentage |-> percentage_read,
         progress |-> percentage_read.num \div percentage_read.den,
         genres |-> genres_count(genres_init(library), library)]

\* ------------------------------------------------------------------- state
VARIABLES
    file,        \* library.json
    now,         \* the wall clock
    pc,          \* per session: "start", "loaded", "idle" or "crashed"
    library,     \* per session: the list bound to the script's global
    screen,      \* per session: what the last run rendered
    lastWriter   \* the sessions (none or one) whose save wrote the file last

vars == <<file, now, pc, library, screen, lastWriter>>

Blank == [kind |-> "none"]

Min(a, b) == IF a <= b THEN a ELSE b

\* A book as an earlier run stored it.
StoredBook ==
    [title |-> du, author |-> Herbert, year |-> 1965, genre |-> Fantasy,
     read |-> TRUE, rating |-> 4, notes |-> Empty, date_added |-> strftime(0)]

InitFiles ==
    {AbsentFile, UndecodableFile, MalformedFile,
     save_library(<<>>), save_library(<<StoredBook>>)}

Init ==
    /\ file \in InitFiles
    /\ now = 0
    /\ pc = [s \in Sessions |-> "start"]
    /\ library = [s \in Sessions |-> <<>>]
    /\ screen = [s \in Sessions |-> Blank]
    /\ lastWriter = {}

\* Line 112 at the start of a script run.  An exception that escapes
\* load_library ends the run before any section executes.
Load(s) ==
    /\ pc[s] # "loaded"
    /\ LET r == load_library(file)
       IN  IF r.raised
           THEN /\ pc' = [pc EXCEPT ![s] = "crashed"]
                /\ library' = [library EXCEPT ![s] = <<>>]
                /\ screen' = [screen EXCEPT ![s] = [kind |-> "exception"]]
           ELSE /\ pc' = [pc EXCEPT ![s] = "loaded"]
                /\ library' = [library EXCEPT ![s] = r.value]
                /\ screen' = [screen EXCEPT ![s] = Blank]
    /\ UNCHANGED <<file, now, lastWriter>>

\* Lines 119-136: the add form is submitted.
SubmitAdd(s, form, max) ==
    /\ pc[s] = "loaded"
    /\ Len(library[s]) < max
    /\ pc' = [pc EXCEPT ![s] = "idle"]
    /\ IF required_filled(form.title, form.author, form.genre)
       THEN \E t \in now..Min(now + 1, MaxClock) :
                LET r == add_book(library[s], form.title, form.author,
                                  form.year, form.genre, form.read,
                                  form.rating, form.notes, t)
                IN  /\ library' = [library EXCEPT ![s] = r.library]
                    /\ file' = r.file
                    /\ now' = t
                    /\ lastWriter' = {s}
                    /\ screen' = [screen EXCEPT ![s] =
                                     [kind |-> r.message, form |-> form]]
       ELSE /\ screen' = [screen EXCEPT ![s] =
                             [kind |-> "rejected", form |-> form]]
            /\ UNCHANGED <<file, now, library, lastWriter>>

\* remove_book is called with a title (line 176).
RemoveBook(s, title) ==
    /\ pc[s] = "loaded"
    /\ pc' = [pc EXCEPT ![s] = "idle"]
    /\ LET r == remove_book(library[s], title)
       IN  /\ library' = [library EXCEPT ![s] = r.library]
           /\ file' = IF r.saved THEN save_library(r.library) ELSE file
           /\ lastWriter' = IF r.saved THEN {s} ELSE lastWriter
           /\ screen' = [screen EXCEPT ![s] =
                            [kind |-> r.message, title |-> title]]
    /\ UNCHANGED now

\* Lines 139-156: an entry of the select box is chosen.
SearchBooks(s, choice) ==
    /\ pc[s] = "loaded"
    /\ library[s] # <<>>
    /\ choice \in 1..Len(search_options(library[s]))
    /\ pc' = [pc EXCEPT ![s] = "idle"]
    /\ LET search_query == search_options(library[s])[choice]
       IN  screen' = [screen EXCEPT ![s] =
                         [kind |-> "search", query |-> search_query,
                          results |-> search_books(library[s], search_query)]]
    /\ UNCHANGED <<file, now, library, lastWriter>>

\* Lines 181-202
LibraryStats(s) ==
    /\ pc[s] = "loaded"
    /\ pc' = [pc EXCEPT ![s] = "idle"]
    /\ screen' = [screen EXCEPT ![s] =
                     [kind |-> "stats", stats |-> library_stats(library[s])]]
    /\ UNCHANGED <<file, now, library, lastWriter>>

\* One session on the file.
Next ==
    \/ Load(1)
    \/ \E form \in Forms : SubmitAdd(1, form, MaxBooks)
    \/ \E title \in Titles : RemoveBook(1, title)
    \/ \E choice \in 1..(MaxBooks + 1) : SearchBooks(1, choice)
    \/ LibraryStats(1)

Spec == Init /\ [][Next]_vars

\* What the two sessions submit when they share the file.
SharedForms ==
    { Form(Du, Herbert, 19650, SciFi, TRUE, 5, SomeNotes),
      Form(D, Herbert, 19650, Fantasy, TRUE, 3, Empty) }

SharedTitles == {Du}

\* Two sessions on the same file; their runs interleave between the load
\* and the section that follows it.
NextConcurrent ==
    \E s \in Sessions :
        \/ Load(s)
        \/ \E form \in SharedForms : SubmitAdd(s, form, MaxShared)
        \/ \E title \in SharedTitles : RemoveBook(s, title)

SpecConcurrent == Init /\ [][NextConcurrent]_vars

TypeOK ==
    /\ now \in 0..MaxClock
    /\ pc \in [Sessions -> {"start", "loaded", "idle", "crashed"}]
    /\ lastWriter \in SUBSET Sessions
    /\ \A s \in Sessions : Len(library[s]) <= MaxBooks

\* ------------------------------------------------------------ properties
Last(l) == l[Len(l)]

\* l without its i-th element
Without(l, i) == [k \in 1..(Len(l) - 1) |-> IF k < i THEN l[k] ELSE l[k + 1]]

\* the members of l that satisfy the index set idx, in the order of l
Pick(l, idx) ==
    [k \in 1..Cardinality(idx) |->
        l[CHOOSE i \in idx : Cardinality({j \in idx : j <= i}) = k]]

\* the step of session s is a submission of the add form
Submitted(s) ==
    /\ pc[s] = "loaded"
    /\ pc'[s] = "idle"
    /\ screen'[s].kind \in {"added", "rejected"}

FormValid(f) == f.title # <<>> /\ f.author # <<>> /\ f.genre # <<>>

\* the step of session s is a call of remove_book
RemoveCalled(s) ==
    /\ pc[s] = "loaded"
    /\ pc'[s] = "idle"
    /\ screen'[s].kind \in {"removed", "not_found"}

Matches(l, title) == {i \in 1..Len(l) : Lower(l[i].title) = Lower(title)}

\* C1: a submission with non-empty title, author and genre grows the
\* collection by exactly one record, placed at the end, whose title, author,
\* genre, read, rating and notes are the inputs and whose year is the integer
\* part of the input; the records already present keep value and position.
C1_AddAppendsOne ==
    [][\A s \in Sessions :
          (Submitted(s) /\ FormValid(screen'[s].form)) =>
              LET f == screen'[s].form
                  old == library[s]
                  new == library'[s]
                  book == Last(new)
              IN  /\ screen'[s].kind = "added"
                  /\ Len(new) = Len(old) + 1
                  /\ book.title = f.title
                  /\ book.author = f.author
                  /\ book.genre = f.genre
                  /\ book.read = f.read
                  /\ book.rating = f.rating
                  /\ book.notes = f.notes
                  /\ book.year * 10 <= f.year
                  /\ f.year < (book.year + 1) * 10
                  /\ \A i \in 1..Len(old) : new[i] = old[i]]_vars

\* an add onto a non-empty collection whose year input had a fraction
C1_Witness ==
    /\ screen[1].kind = "added"
    /\ Len(library[1]) >= 2
    /\ screen[1].form.year = 19657
    /\ Last(library[1]).year = 1965

\* C2: when some record's title equals the argument ignoring case, remove
\* shrinks the collection by exactly one: the matching record of lowest
\* index goes, every other record (later records of the same title too)
\* stays, unchanged and in the same relative order.
C2_RemoveFirstMatch ==
    [][\A s \in Sessions :
          (RemoveCalled(s) /\ Matches(library[s], screen'[s].title) # {}) =>
              LET hits == Matches(library[s], screen'[s].title)
                  first == CHOOSE i \in hits : \A k \in hits : i <= k
              IN  /\ Len(library'[s]) = Len(library[s]) - 1
                  /\ library'[s] = Without(library[s], first)]_vars

\* a removal after which a record of the same title (ignoring case) remains
C2_Witness ==
    /\ screen[1].kind = "removed"
    /\ Matches(library[1], screen[1].title) # {}
    /\ Len(library[1]) >= 2

\* C3: when no record's title equals the argument ignoring case, remove
\* leaves the collection as it was, does not write the file, and reports
\* "not found", an outcome a successful removal never reports.
C3_RemoveNotFound ==
    [][\A s \in Sessions :
          RemoveCalled(s) =>
              IF Matches(library[s], screen'[s].title) = {}
              THEN /\ library'[s] = library[s]
                   /\ file' = file
                   /\ lastWriter' = lastWriter
                   /\ screen'[s].kind = "not_found"
              ELSE screen'[s].kind = "removed"]_vars

\* a "not found" on a collection that holds records
C3_Witness ==
    /\ screen[1].kind = "not_found"
    /\ library[1] # <<>>
    /\ Matches(library[1], screen[1].title) = {}

\* C4: in a single session, once the library is loaded, a fresh load of the
\* file returns the in-memory collection: the same records with the same
\* field values in the same order.
C4_FileHoldsLibrary ==
    pc[1] \in {"loaded", "idle"} =>
        /\ ~load_library(file).raised
        /\ load_library(file).value = library[1]

\* the file after an add and a later removal that left records behind
C4_Witness ==
    /\ screen[1].kind = "removed"
    /\ lastWriter = {1}
    /\ Len(library[1]) >= 2
    /\ file = save_library(library[1])

\* C5: load never fails: it returns the empty collection when the file is
\* absent or its contents are not a stored collection, and the stored
\* records in stored order otherwise.
C5_LoadFailsOpen ==
    \A s \in Sessions :
        /\ pc[s] # "crashed"
        /\ pc[s] = "loaded" =>
              library[s] = IF file.status = "json"
                           THEN json_load(file.text)
                           ELSE <<>>

\* C6: a submission with an empty title, author or genre is rejected and
\* leaves the in-memory collection and the file as they were.
C6_RejectBeforeMutation ==
    [][\A s \in Sessions :
          (Submitted(s) /\ ~FormValid(screen'[s].form)) =>
              /\ screen'[s].kind = "rejected"
              /\ library' = library
              /\ file' = file]_vars

\* a rejection for an empty author on a collection that holds records
C6_Witness ==
    /\ screen[1].kind = "rejected"
    /\ screen[1].form.author = <<>>
    /\ screen[1].form.title # <<>>
    /\ library[1] # <<>>

\* p occurs in s
IsSubstring(p, s) == \E i \in 1..(Len(s) + 1) : MatchAt(s, p, i)

\* the records of l in which q, ignoring case, is a substring of the title
\* or of the author
SubstringMatches(l, q) ==
    Pick(l, {i \in 1..Len(l) :
                \/ IsSubstring(Lower(q), Lower(l[i].title))
                \/ IsSubstring(Lower(q), Lower(l[i].author))})

C8_StatsCounts ==
    screen[1].kind = "stats" =>
        LET st == screen[1].stats
            l == library[1]
            nread == Cardinality({i \in 1..Len(l) : l[i].read})
        IN  /\ st.total = Len(l)
            /\ st.read = nread
            /\ st.unread = Len(l) - nread
            /\ st.percentage.den > 0
            /\ st.percentage.num * Len(l) = nread * 100 * st.percentage.den
            /\ Len(l) = 0 => st.percentage.num = 0

\* statistics of a collection with read and unread records
C8_Witness ==
    /\ screen[1].kind = "stats"
    /\ screen[1].stats.total = 3
    /\ screen[1].stats.read = 2
    /\ screen[1].stats.unread = 1
    /\ screen[1].stats.progress = 66

GenreCount(l, g) == Cardinality({i \in 1..Len(l) : l[i].genre = g})

FirstOf(l, g) == CHOOSE i \in 1..Len(l) :
                     /\ l[i].genre = g
                     /\ \A k \in 1..(i - 1) : l[k].genre # g

\* C9: statistics lists each genre of the collection exactly once with its
\* number of records, in descending order of count, genres of equal count in
\* the order of their first appearance.
C9_GenresByCount ==
    screen[1].kind = "stats" =>
        LET d == screen[1].stats.genres
            l == library[1]
        IN  /\ Len(d) = Cardinality({l[i].genre : i \in 1..Len(l)})
            /\ \A i \in 1..Len(l) : \E k \in 1..Len(d) : d[k][1] = l[i].genre
            /\ \A k \in 1..Len(d) : d[k][2] = GenreCount(l, d[k][1])
            /\ \A j, k \in 1..Len(d) :
                  j < k =>
                      \/ d[j][2] > d[k][2]
                      \/ /\ d[j][2] = d[k][2]
                         /\ FirstOf(l, d[j][1]) < FirstOf(l, d[k][1])

\* C10: with two sessions on one file, the file holds exactly the full
\* collection of the session that saved last.
C10_LastWriterWins ==
    \A s \in lastWriter :
        /\ ~load_library(file).raised
        /\ load_library(file).value = library[s]

\* a lost update: both sessions' last runs reported a successful add,
\* session 1 saved last, and the record session 2 added is not in the file
C10_Witness ==
    /\ lastWriter = {1}
    /\ screen[1].kind = "added"
    /\ screen[2].kind = "added"
    /\ \A i \in 1..Len(load_library(file).value) :
          load_library(file).value[i] # Last(library[2])

====
